---- MODULE Spec2Model ----
(***************************************************************************)
(* GT06 GPS gateway (src/server.js, lines 1-820): the device sessions,     *)
(* the tracker registry, the per-IMEI message queues with their drainer    *)
(* (enqueueMessage / processMessageQueue) and the WebSocket broadcast.     *)
(*                                                                         *)
(* Scheduling is that of the Node.js event loop.  An event handler         *)
(* (socket 'data', socket 'close', wss 'connection', ws 'message',         *)
(* ws 'close') runs to completion; a processMessageQueue run that is       *)
(* suspended at `await broadcastToWebClientsQueued(..)` resumes from the   *)
(* microtask queue, which is emptied after the running handler returns and *)
(* before the next event is dispatched.  A 'data' handler loops over the   *)
(* packets of its chunk, so the model takes one step per packet, and the   *)
(* suspended drainers cannot resume between two packets of one chunk.      *)
(*                                                                         *)
(* The bytes of a device are kept too: what it sends over its connection   *)
(* (script), how much of that TCP has handed over in 'data' events         *)
(* (delivered), the chunk the running handler was given and its read       *)
(* position in it (chunk, offset).  Spec draws the packets of a chunk one  *)
(* by one without their bytes; SpecWire runs parseGT06Data over the bytes. *)
(*                                                                         *)
(* unbroadcastedMessages (server.js:94) is written but only ever read into *)
(* log records, so it is not part of the state here.                       *)
(***************************************************************************)
EXTENDS Integers, Sequences, FiniteSets

\* ------------------------------------------------------------------ bounds
MaxInputs == 3   \* location packets enqueued, observer updates accepted and
                 \* faults (a send or a broadcast that throws), all together

\* ---------------------------------------------------------------- universes
Keys      == {"A", "B"}             \* IMEIs that devices log in with
NoImei    == "undefined"            \* socket.imei / data.imei not set
EmptyImei == ""                      \* decoded from a login cut before its IMEI bytes
ShortImei == "88220385317250"        \* decoded from IMEI bytes with two F padding nibbles
PaddedImei  == "68022038531725f"     \* decoded from 15 IMEI digits and one F nibble
ExampleImei == "868022038531724"     \* decoded from the bytes 08 68 02 20 38 53 17 24
KeysU     == Keys \cup {NoImei, EmptyImei, ShortImei, PaddedImei, ExampleImei}
Sockets   == {"s1", "s2"}           \* device TCP connections
NoSock    == "none"
Observers == {"o1", "o2"}           \* WebSocket clients
NoPos     == 0                      \* lat/lon absent
Payloads  == {1}                    \* the lat/lon/speed/course/datetime of a fix

VARIABLES
  trackers,             \* Map IMEI -> tracker data            (server.js:89)
  messageQueues,        \* Map IMEI -> pending messages        (server.js:92)
  broadcastInProgress,  \* Map IMEI -> boolean                 (server.js:93)
  messageCounters,      \* Map IMEI -> total message count     (server.js:95)
  drainers,             \* per IMEI: the suspended runs of processMessageQueue,
                        \*   each with the outcome of the promise it awaits
  sockState,            \* per socket: "none", "open", "closed"
  sockImei,             \* socket.imei
  cur,                  \* the socket whose 'data' handler is on the stack
  written,              \* the ACKs the handler wrote to it for its latest packet
  clients,              \* per observer: "none", "open", "closed"
  received,             \* per observer: the messages sent to it
  inputs,               \* inputs counted against MaxInputs so far
  lastBroadcast,        \* history: per IMEI the last update handed to a broadcast
  missed,               \* history: the observer was not sent some queued update
  script,               \* per socket: the bytes its device sends, first to last
  delivered,            \* per socket: how many of them 'data' events have carried
  chunk,                \* the `data` of the running 'data' handler
  offset                \* its `offset`

vars == <<trackers, messageQueues, broadcastInProgress, messageCounters, drainers,
          sockState, sockImei, cur, written, clients, received, inputs,
          lastBroadcast, missed, script, delivered, chunk, offset>>

wire == <<script, delivered, chunk, offset>>

\* -------------------------------------------------------------- JS Map
Has(m, k)      == k \in DOMAIN m
Put(m, k, v)   == [x \in (DOMAIN m) \cup {k} |-> IF x = k THEN v ELSE m[x]]
GetOr(m, k, d) == IF k \in DOMAIN m THEN m[k] ELSE d
EmptyMap       == [x \in {} |-> 0]

\* The mutable part of the process that enqueueMessage, processMessageQueue and
\* the broadcasts read and write, as one record.
Store ==
  [trackers |-> trackers, messageQueues |-> messageQueues,
   broadcastInProgress |-> broadcastInProgress, messageCounters |-> messageCounters,
   drainers |-> drainers, received |-> received,
   lastBroadcast |-> lastBroadcast, missed |-> missed]

Commit(st) ==
  /\ trackers' = st.trackers
  /\ messageQueues' = st.messageQueues
  /\ broadcastInProgress' = st.broadcastInProgress
  /\ messageCounters' = st.messageCounters
  /\ drainers' = st.drainers
  /\ received' = st.received
  /\ lastBroadcast' = st.lastBroadcast
  /\ missed' = st.missed

\* ------------------------------------------------------------ tracker data
\* A tracker record: imei, pos (lat, lon, speed, course, datetime as one value,
\* NoPos when the object carries none), status ("none" when the object has no
\* status field) and seq (messageId, 0 when the object has none).
NewTracker(imei) ==                                   \* { imei, history: [] }
  [imei |-> imei, pos |-> NoPos, status |-> "none", seq |-> 0]

LocationData(imei, p) ==                              \* trackerData of a location packet
  [imei |-> imei, pos |-> p, status |-> "none", seq |-> 0]

\* The two responses, as the fields of their bytes: 7878 05 <protocol> <serial,
\* two bytes> <check, two bytes> 0d0a.  0xd9dc is 55772.
LoginAck     == [protocol |-> 1,  serial |-> 1, crc |-> 55772]    \* 787805010001d9dc0d0a
HeartbeatAck == [protocol |-> 19, serial |-> 1, crc |-> 55772]    \* 787805130001d9dc0d0a

EverClients == {o \in Observers : clients[o] # "none"}            \* no readyState test
OpenClients == {o \in Observers : clients[o] = "open"}            \* readyState === OPEN

\* The ways one broadcast can go: which client.send calls throw, and whether
\* the body of broadcastToWebClientsQueued itself throws (before or after the
\* sends), which rejects its promise.
Outcomes  == {"ok", "throwBefore", "throwAfter"}
FailSets  == {{}} \cup {{o} : o \in Observers}
Settled(out) == IF out = "ok" THEN "resolved" ELSE "rejected"

\* ------------------------------------------------------------- broadcasts
UpdateMsg(data, via) == [type |-> "update", data |-> data, via |-> via]

BroadcastToWebClients(st, data, fails) ==
  [st EXCEPT
     !.received = [o \in Observers |->
                     IF o \in OpenClients /\ o \notin fails
                     THEN Append(@[o], UpdateMsg(data, "direct")) ELSE @[o]],
     !.lastBroadcast = Put(@, data.imei, UpdateMsg(data, "direct"))]

\* Not the code: the forEach given up at the first send that throws, the
\* clients being visited in the order o1, o2.
BroadcastToWebClientsQueuedStop(st, data, out, fails) ==
  [st EXCEPT
     !.received = [o \in Observers |->
                     IF /\ o \in OpenClients /\ o \notin fails /\ out # "throwBefore"
                        /\ ~(o = "o2" /\ "o1" \in fails)
                     THEN Append(@[o], UpdateMsg(data, "queued")) ELSE @[o]],
     !.lastBroadcast = Put(@, data.imei, UpdateMsg(data, "queued")),
     !.missed = [o \in Observers |->
                   @[o] \/ (o \in OpenClients /\ (o \in fails \/ out = "throwBefore"))]]

BroadcastToWebClientsQueued(st, data, out, fails) ==
  [st EXCEPT
     !.received = [o \in Observers |->
                     IF o \in OpenClients /\ o \notin fails /\ out # "throwBefore"
                     THEN Append(@[o], UpdateMsg(data, "queued")) ELSE @[o]],
     !.lastBroadcast = Put(@, data.imei, UpdateMsg(data, "queued")),
     !.missed = [o \in Observers |->
                   @[o] \/ (o \in OpenClients /\ (o \in fails \/ out = "throwBefore"))]]

\* ------------------------------------------------------------- the queue
InitializeQueue(st, imei) ==
  IF ~Has(st.messageQueues, imei)
  THEN [st EXCEPT !.messageQueues = Put(@, imei, <<>>),
                  !.broadcastInProgress = Put(@, imei, FALSE)]
  ELSE st

\* One counter for all IMEIs instead of one per IMEI.
GenerateMessageIdsShared(counters, imei) ==
  LET used == {GetOr(counters, k, 0) : k \in KeysU}
  IN  (CHOOSE m \in used : \A x \in used : x <= m) + 1

\* currentCount of generateMessageIds; messageId is this number padded to four
\* digits, which is one-to-one for the counts the model reaches.
GenerateMessageIds(counters, imei) == GetOr(counters, imei, 0) + 1

PushFront(queue, trackerData) == <<trackerData>> \o queue   \* unshift for push
Push(queue, trackerData) == Append(queue, trackerData)      \* queue.push

\* Latest-only: broadcast the newest pending message and drop the others.
LoopBodyLatestOnly(st, imei, out, fails) ==
  LET queue == st.messageQueues[imei]
      trackerData == queue[Len(queue)]
      s1 == [st EXCEPT !.messageQueues = Put(@, imei, <<>>),
                       !.trackers = Put(@, imei, trackerData)]
  IN  BroadcastToWebClientsQueued(s1, trackerData, out, fails)

\* The broadcast without the trackers.set before it.
LoopBodyNoSet(st, imei, out, fails) ==
  LET queue == st.messageQueues[imei]
      trackerData == Head(queue)
      s1 == [st EXCEPT !.messageQueues = Put(@, imei, Tail(queue))]
  IN  BroadcastToWebClientsQueued(s1, trackerData, out, fails)

\* One pass of the while loop up to its await: shift, trackers.set, broadcast.
LoopBody(st, imei, out, fails) ==
  LET queue == st.messageQueues[imei]
      trackerData == Head(queue)
      s1 == [st EXCEPT !.messageQueues = Put(@, imei, Tail(queue)),
                       !.trackers = Put(@, imei, trackerData)]
  IN  BroadcastToWebClientsQueued(s1, trackerData, out, fails)

\* Not the code: the run ends without the finally block.
FinallyKeepFlag(st, imei, n) ==
  [st EXCEPT !.drainers[imei] = SubSeq(@, 1, n - 1) \o SubSeq(@, n + 1, Len(@))]

\* Not the code: a finally block that clears the flag of every IMEI.
FinallyAll(st, imei, n) ==
  [st EXCEPT !.broadcastInProgress = [k \in DOMAIN @ |-> FALSE],
             !.drainers[imei] = SubSeq(@, 1, n - 1) \o SubSeq(@, n + 1, Len(@))]

\* The finally block: the run is over.
Finally(st, imei, n) ==
  [st EXCEPT !.broadcastInProgress = Put(@, imei, FALSE),
             !.drainers[imei] = SubSeq(@, 1, n - 1) \o SubSeq(@, n + 1, Len(@))]

\* processMessageQueue without the broadcastInProgress check.
ProcessMessageQueueNoFlag(st, imei, out, fails) ==
  IF ~Has(st.messageQueues, imei) \/ st.messageQueues[imei] = <<>> THEN st
  ELSE LET s1 == [st EXCEPT !.broadcastInProgress = Put(@, imei, TRUE)]
           s2 == LoopBody(s1, imei, out, fails)
       IN  [s2 EXCEPT !.drainers[imei] = Append(@, Settled(out))]

\* Not the code: one flag for all IMEIs, a run starts only when no run of any
\* IMEI is in progress.
ProcessMessageQueueGlobal(st, imei, out, fails) ==
  IF \E k \in DOMAIN st.broadcastInProgress : st.broadcastInProgress[k] THEN st
  ELSE IF ~Has(st.messageQueues, imei) \/ st.messageQueues[imei] = <<>> THEN st
  ELSE LET s1 == [st EXCEPT !.broadcastInProgress = Put(@, imei, TRUE)]
           s2 == LoopBody(s1, imei, out, fails)
       IN  [s2 EXCEPT !.drainers[imei] = Append(@, Settled(out))]

\* processMessageQueue from its call to its first await (or its return).
ProcessMessageQueue(st, imei, out, fails) ==
  IF GetOr(st.broadcastInProgress, imei, FALSE) THEN st
  ELSE IF ~Has(st.messageQueues, imei) \/ st.messageQueues[imei] = <<>> THEN st
  ELSE LET s1 == [st EXCEPT !.broadcastInProgress = Put(@, imei, TRUE)]
           s2 == LoopBody(s1, imei, out, fails)
       IN  [s2 EXCEPT !.drainers[imei] = Append(@, Settled(out))]

\* Run n of processMessageQueue(imei) continues after its await.
ResumeRun(st, imei, n, out, fails) ==
  IF st.drainers[imei][n] = "rejected" THEN Finally(st, imei, n)      \* catch, finally
  ELSE IF st.messageQueues[imei] # <<>>
       THEN [LoopBody(st, imei, out, fails) EXCEPT !.drainers[imei][n] = Settled(out)]
       ELSE Finally(st, imei, n)

EnqueueMessage(st, imei, trackerData, out, fails) ==
  LET s0 == InitializeQueue(st, imei)
      totalCount == GenerateMessageIds(s0.messageCounters, imei)
      s1 == [s0 EXCEPT !.messageCounters = Put(@, imei, totalCount)]
      td == [trackerData EXCEPT !.seq = totalCount]
      s2 == [s1 EXCEPT !.messageQueues = Put(@, imei, Push(s1.messageQueues[imei], td))]
  IN  ProcessMessageQueue(s2, imei, out, fails)

\* ----------------------------------------------------------- event loop
NoDrainer == \A k \in KeysU : drainers[k] = <<>>
LoopIdleEarly == cur = NoSock      \* Not the code: events dispatched before the microtasks
LoopIdle  == cur = NoSock /\ NoDrainer            \* the next event can be dispatched

\* Socket s can have its next packet handled: a new chunk arrives, or the
\* running handler of s goes on to the next packet of its chunk.
PacketTurn(s) ==
  /\ sockState[s] = "open"
  /\ LoopIdle \/ cur = s

IsBoundAlways(s) == TRUE                          \* the && socket.imei test left out
IsBound(s) == sockImei[s] \notin {NoImei, EmptyImei}   \* socket.imei is truthy

\* The faults of one broadcast, within the budget: out is how the body of
\* broadcastToWebClientsQueued ends, fails are the clients whose send throws.
Cost(out, fails) == (IF out = "ok" THEN 0 ELSE 1) + Cardinality(fails)
Faulty(out, fails) ==
  /\ fails \subseteq OpenClients
  /\ inputs + Cost(out, fails) <= MaxInputs

Started ==
  /\ trackers = EmptyMap
  /\ messageQueues = EmptyMap
  /\ broadcastInProgress = EmptyMap
  /\ messageCounters = EmptyMap
  /\ drainers = [k \in KeysU |-> <<>>]
  /\ sockState = [s \in Sockets |-> "none"]
  /\ sockImei = [s \in Sockets |-> NoImei]
  /\ cur = NoSock
  /\ written = <<>>
  /\ clients = [o \in Observers |-> "none"]
  /\ received = [o \in Observers |-> <<>>]
  /\ inputs = 0
  /\ lastBroadcast = EmptyMap
  /\ missed = [o \in Observers |-> FALSE]
  /\ delivered = [s \in Sockets |-> 0]
  /\ chunk = <<>>
  /\ offset = 0

Init ==
  /\ Started
  /\ script = [s \in Sockets |-> <<>>]

\* ------------------------------------------------------ device sessions
SocketConnect(s) ==                                 \* net.createServer callback
  /\ LoopIdle
  /\ sockState[s] = "none"
  /\ sockState' = [sockState EXCEPT ![s] = "open"]
  /\ written' = <<>>
  /\ UNCHANGED <<trackers, messageQueues, broadcastInProgress, messageCounters,
                 drainers, sockImei, cur, clients, received, inputs,
                 lastBroadcast, missed>>
  /\ UNCHANGED wire

\* The login branch with the registry entry set anew at every login.
LoginOverwrite(s, imei) ==
  /\ PacketTurn(s)
  /\ cur' = s
  /\ sockImei' = [sockImei EXCEPT ![s] = imei]
  /\ trackers' = Put(trackers, imei, NewTracker(imei))
  /\ written' = <<LoginAck>>
  /\ UNCHANGED <<messageQueues, broadcastInProgress, messageCounters, drainers,
                 sockState, clients, received, inputs, lastBroadcast, missed>>

Login(s, imei) ==                                   \* packet.type === 'login'
  /\ PacketTurn(s)
  /\ cur' = s
  /\ sockImei' = [sockImei EXCEPT ![s] = imei]
  /\ trackers' = IF Has(trackers, imei) THEN trackers
                 ELSE Put(trackers, imei, NewTracker(imei))
  /\ written' = <<LoginAck>>
  /\ UNCHANGED <<messageQueues, broadcastInProgress, messageCounters, drainers,
                 sockState, clients, received, inputs, lastBroadcast, missed>>

Location(s, p, out, fails) ==                                  \* packet.type === 'location'
  /\ PacketTurn(s)
  /\ cur' = s
  /\ written' = <<>>
  /\ IF IsBound(s)
     THEN /\ inputs < MaxInputs
          /\ IF GetOr(broadcastInProgress, sockImei[s], FALSE)
             THEN out = "ok" /\ fails = {}
             ELSE inputs + 1 + Cost(out, fails) <= MaxInputs
                  /\ fails \subseteq OpenClients
          /\ inputs' = inputs + 1 + Cost(out, fails)
          /\ Commit(EnqueueMessage(Store, sockImei[s],
                                   LocationData(sockImei[s], p), out, fails))
     ELSE /\ out = "ok" /\ fails = {}
          /\ UNCHANGED <<trackers, messageQueues, broadcastInProgress, messageCounters,
                         drainers, received, lastBroadcast, missed, inputs>>
  /\ UNCHANGED <<sockState, sockImei, clients>>

\* The heartbeat branch without its socket.write.
HeartbeatSilent(s) ==
  /\ PacketTurn(s)
  /\ cur' = s
  /\ written' = <<>>
  /\ UNCHANGED <<trackers, messageQueues, broadcastInProgress, messageCounters,
                 drainers, sockState, sockImei, clients, received, inputs,
                 lastBroadcast, missed>>

Heartbeat(s) ==                                     \* packet.type === 'heartbeat'
  /\ PacketTurn(s)
  /\ cur' = s
  /\ written' = IF IsBound(s) THEN <<HeartbeatAck>> ELSE <<>>
  /\ UNCHANGED <<trackers, messageQueues, broadcastInProgress, messageCounters,
                 drainers, sockState, sockImei, clients, received, inputs,
                 lastBroadcast, missed>>

Unknown(s) ==                                       \* packet.type === 'unknown'
  /\ PacketTurn(s)
  /\ cur' = s
  /\ written' = <<>>
  /\ UNCHANGED <<trackers, messageQueues, broadcastInProgress, messageCounters,
                 drainers, sockState, sockImei, clients, received, inputs,
                 lastBroadcast, missed>>

DataEnd ==                                          \* the 'data' handler returns
  /\ cur # NoSock
  /\ cur' = NoSock
  /\ written' = <<>>
  /\ UNCHANGED <<trackers, messageQueues, broadcastInProgress, messageCounters,
                 drainers, sockState, sockImei, clients, received, inputs,
                 lastBroadcast, missed>>

\* Not the code: the close handler marking the tracker offline without the
\* broadcast.
SocketCloseQuiet(s, fails) ==
  /\ LoopIdle
  /\ sockState[s] = "open"
  /\ sockState' = [sockState EXCEPT ![s] = "closed"]
  /\ written' = <<>>
  /\ fails = {}
  /\ trackers' = IF IsBound(s) /\ Has(trackers, sockImei[s])
                 THEN Put(trackers, sockImei[s],
                          [trackers[sockImei[s]] EXCEPT !.status = "offline"])
                 ELSE trackers
  /\ UNCHANGED <<messageQueues, broadcastInProgress, messageCounters,
                 drainers, received, lastBroadcast, missed, inputs>>
  /\ UNCHANGED <<sockImei, cur, clients>>
  /\ UNCHANGED wire

\* Not the code: a close handler that marks every tracker offline.
SocketCloseAll(s, fails) ==
  /\ LoopIdle
  /\ sockState[s] = "open"
  /\ sockState' = [sockState EXCEPT ![s] = "closed"]
  /\ written' = <<>>
  /\ fails = {}
  /\ trackers' = [k \in DOMAIN trackers |-> [trackers[k] EXCEPT !.status = "offline"]]
  /\ UNCHANGED <<messageQueues, broadcastInProgress, messageCounters,
                 drainers, received, lastBroadcast, missed, inputs>>
  /\ UNCHANGED <<sockImei, cur, clients>>
  /\ UNCHANGED wire

SocketClose(s, fails) ==                                  \* socket.on('close')
  /\ LoopIdle
  /\ sockState[s] = "open"
  /\ sockState' = [sockState EXCEPT ![s] = "closed"]
  /\ written' = <<>>
  /\ IF IsBound(s) /\ Has(trackers, sockImei[s])
     THEN LET trackerData == [trackers[sockImei[s]] EXCEPT !.status = "offline"]
              s1 == [Store EXCEPT !.trackers = Put(@, sockImei[s], trackerData)]
          IN  /\ Faulty("ok", fails)
              /\ inputs' = inputs + Cost("ok", fails)
              /\ Commit(BroadcastToWebClients(s1, trackerData, fails))
     ELSE /\ fails = {}
          /\ UNCHANGED <<trackers, messageQueues, broadcastInProgress, messageCounters,
                         drainers, received, lastBroadcast, missed, inputs>>
  /\ UNCHANGED <<sockImei, cur, clients>>
  /\ UNCHANGED wire

\* ------------------------------------------------------------- drainer
Resume(imei, n, out, fails) ==                                 \* a microtask: the await returns
  /\ cur = NoSock
  /\ n \in 1..Len(drainers[imei])
  /\ IF drainers[imei][n] = "resolved" /\ messageQueues[imei] # <<>>
     THEN Faulty(out, fails)
     ELSE out = "ok" /\ fails = {}
  /\ inputs' = inputs + Cost(out, fails)
  /\ Commit(ResumeRun(Store, imei, n, out, fails))
  /\ written' = <<>>
  /\ UNCHANGED <<sockState, sockImei, cur, clients>>
  /\ UNCHANGED wire

\* ------------------------------------------------------------ observers
\* Not the code: a connection handler that sends nothing.
WsConnectSilent(o) ==
  /\ LoopIdle
  /\ clients[o] = "none"
  /\ clients' = [clients EXCEPT ![o] = "open"]
  /\ received' = [received EXCEPT ![o] = <<>>]
  /\ missed' = [missed EXCEPT ![o] = \E k \in DOMAIN messageCounters : messageCounters[k] > 0]
  /\ written' = <<>>
  /\ UNCHANGED <<trackers, messageQueues, broadcastInProgress, messageCounters,
                 drainers, sockState, sockImei, cur, inputs, lastBroadcast>>
  /\ UNCHANGED wire

\* Not the code: a connection handler that replays the latest update after
\* the initial_state.
WsConnectReplay(o) ==
  /\ LoopIdle
  /\ clients[o] = "none"
  /\ clients' = [clients EXCEPT ![o] = "open"]
  /\ received' = [received EXCEPT ![o] =
                    <<[type |-> "initial_state", data |-> trackers]>>
                      \o (IF lastBroadcast = EmptyMap THEN <<>>
                          ELSE <<lastBroadcast[CHOOSE k \in DOMAIN lastBroadcast : TRUE]>>)]
  /\ missed' = [missed EXCEPT ![o] = \E k \in DOMAIN messageCounters : messageCounters[k] > 0]
  /\ written' = <<>>
  /\ UNCHANGED <<trackers, messageQueues, broadcastInProgress, messageCounters,
                 drainers, sockState, sockImei, cur, inputs, lastBroadcast>>
  /\ UNCHANGED wire

\* Not the code: a connection handler that sends an initial_state without the
\* trackers.
WsConnectStale(o) ==
  /\ LoopIdle
  /\ clients[o] = "none"
  /\ clients' = [clients EXCEPT ![o] = "open"]
  /\ received' = [received EXCEPT ![o] = <<[type |-> "initial_state", data |-> EmptyMap]>>]
  /\ missed' = [missed EXCEPT ![o] = \E k \in DOMAIN messageCounters : messageCounters[k] > 0]
  /\ written' = <<>>
  /\ UNCHANGED <<trackers, messageQueues, broadcastInProgress, messageCounters,
                 drainers, sockState, sockImei, cur, inputs, lastBroadcast>>
  /\ UNCHANGED wire

WsConnect(o) ==                                     \* wss.on('connection')
  /\ LoopIdle
  /\ clients[o] = "none"
  /\ clients' = [clients EXCEPT ![o] = "open"]
  /\ received' = [received EXCEPT ![o] = <<[type |-> "initial_state", data |-> trackers]>>]
  /\ missed' = [missed EXCEPT ![o] = \E k \in DOMAIN messageCounters : messageCounters[k] > 0]
  /\ written' = <<>>
  /\ UNCHANGED <<trackers, messageQueues, broadcastInProgress, messageCounters,
                 drainers, sockState, sockImei, cur, inputs, lastBroadcast>>
  /\ UNCHANGED wire

\* What an observer can send: a JSON document of some type with a data object,
\* or text that JSON.parse rejects.
\* What an observer sends: an update or initial_state with a data object,
\* an update whose data is missing or null ("nodata": data.data.datetime throws
\* a TypeError), another type, or text that JSON.parse rejects.
FrameKinds == {"update", "initial_state", "nodata", "other", "garbage"}
InjectData == [imei : KeysU, pos : Payloads \cup {NoPos}, status : {"none", "offline"},
               seq : {0}]

\* Not the code: every frame that parses handled as an update.
WsMessageAnyType(o, kind, data, fails) ==
  /\ LoopIdle
  /\ clients[o] = "open"
  /\ written' = <<>>
  /\ IF kind # "garbage"
     THEN /\ inputs < MaxInputs
          /\ LET s1 == [Store EXCEPT !.trackers = Put(@, data.imei, data)]
             IN  /\ fails \subseteq OpenClients
                 /\ inputs + 1 + Cost("ok", fails) <= MaxInputs
                 /\ inputs' = inputs + 1 + Cost("ok", fails)
                 /\ Commit(BroadcastToWebClients(s1, data, fails))
     ELSE /\ fails = {}
          /\ UNCHANGED <<trackers, messageQueues, broadcastInProgress, messageCounters,
                         drainers, received, lastBroadcast, missed, inputs>>
  /\ UNCHANGED <<sockState, sockImei, cur, clients>>
  /\ UNCHANGED wire

WsMessage(o, kind, data, fails) ==                        \* ws.on('message')
  /\ LoopIdle
  /\ clients[o] = "open"
  /\ written' = <<>>
  /\ IF kind \in {"update", "initial_state"}
     THEN /\ inputs < MaxInputs
          /\ LET s1 == [Store EXCEPT !.trackers = Put(@, data.imei, data)]
             IN  /\ fails \subseteq OpenClients
                 /\ inputs + 1 + Cost("ok", fails) <= MaxInputs
                 /\ inputs' = inputs + 1 + Cost("ok", fails)
                 /\ Commit(BroadcastToWebClients(s1, data, fails))
     ELSE /\ fails = {}
          /\ UNCHANGED <<trackers, messageQueues, broadcastInProgress, messageCounters,
                         drainers, received, lastBroadcast, missed, inputs>>
  /\ UNCHANGED <<sockState, sockImei, cur, clients>>
  /\ UNCHANGED wire

WsClose(o) ==                                       \* ws.on('close')
  /\ LoopIdle
  /\ clients[o] = "open"
  /\ clients' = [clients EXCEPT ![o] = "closed"]
  /\ written' = <<>>
  /\ UNCHANGED <<trackers, messageQueues, broadcastInProgress, messageCounters,
                 drainers, sockState, sockImei, cur, received, inputs,
                 lastBroadcast, missed>>
  /\ UNCHANGED wire

\* The events of a run over the sockets SS and observers OO, with observer
\* updates carrying a data object of DD, broadcast bodies ending as in OUT and
\* the sends of one broadcast failing as in FS.
Step(SS, OO, DD, OUT, FS) ==
  \/ \E s \in SS : SocketConnect(s)
  \/ \E s \in SS, imei \in Keys : Login(s, imei) /\ UNCHANGED wire
  \/ \E s \in SS, p \in Payloads, out \in OUT, fails \in FS :
        Location(s, p, out, fails) /\ UNCHANGED wire
  \/ \E s \in SS : Heartbeat(s) /\ UNCHANGED wire
  \/ \E s \in SS : Unknown(s) /\ UNCHANGED wire
  \/ DataEnd /\ UNCHANGED wire
  \/ \E s \in SS, fails \in FS : SocketClose(s, fails)
  \/ \E imei \in KeysU, n \in 1..2, out \in OUT, fails \in FS : Resume(imei, n, out, fails)
  \/ \E o \in OO : WsConnect(o)
  \/ \E o \in OO, kind \in FrameKinds, data \in DD, fails \in FS : WsMessage(o, kind, data, fails)
  \/ \E o \in OO : WsClose(o)

\* The data objects of the observer updates of Spec.
SimData == {[imei |-> k, pos |-> 1, status |-> "none", seq |-> 0] : k \in Keys}

Next == Step({"s1"}, {"o1"}, SimData, Outcomes, FailSets)

Spec == Init /\ [][Next]_vars

\* Two observers and one device with one IMEI; the broadcast bodies themselves
\* do not throw, single sends do.
HubData == {[imei |-> "A", pos |-> 1, status |-> "none", seq |-> 0]}

NextHub ==
  \/ SocketConnect("s1")
  \/ Login("s1", "A") /\ UNCHANGED wire
  \/ \E fails \in FailSets : Location("s1", 1, "ok", fails) /\ UNCHANGED wire
  \/ DataEnd /\ UNCHANGED wire
  \/ \E fails \in FailSets : SocketClose("s1", fails)
  \/ \E n \in 1..2, fails \in FailSets : Resume("A", n, "ok", fails)
  \/ \E o \in Observers : WsConnect(o)
  \/ \E o \in Observers, data \in HubData, fails \in FailSets :
        WsMessage(o, "update", data, fails)
  \/ \E o \in Observers : WsClose(o)

SpecHub == Init /\ [][NextHub]_vars

\* Two devices that log in with the same IMEI, and one observer; nothing
\* throws.
NextTwin ==
  \/ \E s \in Sockets : SocketConnect(s)
  \/ \E s \in Sockets : Login(s, "A") /\ UNCHANGED wire
  \/ \E s \in Sockets : Location(s, 1, "ok", {}) /\ UNCHANGED wire
  \/ DataEnd /\ UNCHANGED wire
  \/ \E s \in Sockets : SocketClose(s, {})
  \/ \E n \in 1..2 : Resume("A", n, "ok", {})
  \/ WsConnect("o1")

SpecTwin == Init /\ [][NextTwin]_vars

\* One device and one observer that sends data objects of its own making:
\* one without imei, one without lat/lon, one with status offline.  Nothing
\* throws.
OddData ==
  { [imei |-> NoImei, pos |-> 1,     status |-> "none",    seq |-> 0],
    [imei |-> "A",    pos |-> NoPos, status |-> "none",    seq |-> 0],
    [imei |-> "A",    pos |-> 1,     status |-> "offline", seq |-> 0] }

NextInject == Step({"s1"}, {"o1"}, OddData, {"ok"}, {{}})

SpecInject == Init /\ [][NextInject]_vars

\* ================================================================ bytes
\* A Buffer is a sequence of bytes 0..255, its hex string a sequence of
\* nibbles 0..15.  Indices in the names below are those of the code, from 0.
Slice(seq, from, to) ==                               \* seq.slice(from, to)
  SubSeq(seq, from + 1, IF to < Len(seq) THEN to ELSE Len(seq))

RECURSIVE ToHex(_)
ToHex(buffer) ==                                      \* buffer.toString('hex')
  IF buffer = <<>> THEN <<>>
  ELSE <<Head(buffer) \div 16, Head(buffer) % 16>> \o ToHex(Tail(buffer))

ReadUInt8(buffer, i)    == buffer[i + 1]
ReadUInt16BE(buffer, i) == buffer[i + 1] * 256 + buffer[i + 2]
ReadInt32BE(buffer, i)  ==                            \* two's complement
  LET hi == IF buffer[i + 1] >= 128 THEN buffer[i + 1] - 256 ELSE buffer[i + 1]
  IN  ((hi * 256 + buffer[i + 2]) * 256 + buffer[i + 3]) * 256 + buffer[i + 4]

\* The for loop of decodeImeiFromBcd from index i on: byte[1] of a last,
\* single nibble is undefined and byte[1].toLowerCase() throws a TypeError.
RECURSIVE BcdLoop(_, _, _)
BcdLoop(hex, i, imei) ==
  IF i >= Len(hex) THEN [thrown |-> FALSE, imei |-> imei]
  ELSE IF i + 1 >= Len(hex) THEN [thrown |-> TRUE, imei |-> imei \o <<hex[i + 1]>>]
  ELSE BcdLoop(hex, i + 2,
               IF hex[i + 2] # 15 THEN imei \o <<hex[i + 1], hex[i + 2]>>
                                  ELSE imei \o <<hex[i + 1]>>)

DecodeImeiFromBcd(hex) ==
  LET r == BcdLoop(hex, 0, <<>>)
  IN  [thrown |-> r.thrown, imei |-> Slice(r.imei, 0, 15)]

\* The digits of the IMEI strings of the model: "A" and "B" stand for two
\* IMEIs of 15 decimal digits.
DigitsOf(k) ==
  CASE k = "A"       -> <<8, 6, 8, 0, 2, 2, 0, 3, 8, 5, 3, 1, 7, 2, 5>>
    [] k = "B"       -> <<8, 6, 8, 0, 2, 2, 0, 3, 8, 5, 3, 1, 7, 2, 6>>
    [] k = ShortImei -> <<8, 8, 2, 2, 0, 3, 8, 5, 3, 1, 7, 2, 5, 0>>
    [] k = EmptyImei -> <<>>
    [] k = PaddedImei  -> <<6, 8, 0, 2, 2, 0, 3, 8, 5, 3, 1, 7, 2, 5, 15>>
    [] k = ExampleImei -> <<8, 6, 8, 0, 2, 2, 0, 3, 8, 5, 3, 1, 7, 2, 4>>

ImeiText(digits) ==                                   \* the string with these digits
  CHOOSE k \in KeysU \ {NoImei} : DigitsOf(k) = digits

ParseDatetime(buffer) ==                              \* the arguments of Date.UTC
  <<2000 + ReadUInt8(buffer, 0), ReadUInt8(buffer, 1), ReadUInt8(buffer, 2),
    ReadUInt8(buffer, 3), ReadUInt8(buffer, 4), ReadUInt8(buffer, 5)>>

\* The fix of Payloads: lat and lon in units of 1/1800000 degree.
Fix1 == [lat |-> 51110820, lon |-> 151423200, speed |-> 40, course |-> 90,
         datetime |-> <<2025, 6, 13, 18, 30, 33>>]
FixName(fix) == CHOOSE p \in Payloads : fix = Fix1    \* its value as pos

NoFix == [lat |-> 0, lon |-> 0, speed |-> 0, course |-> 0, datetime |-> <<>>]

\* What a call of parseGT06Data ends with: null, a RangeError or TypeError
\* thrown (a read past the end of the buffer, byte[1] undefined), or a packet.
NoPacket == [kind |-> "null", length |-> 0, type |-> "none", imei |-> <<>>,
             fix |-> NoFix, realtimeGps |-> FALSE, protocol |-> 0]
Thrown   == [NoPacket EXCEPT !.kind = "throw"]

FrameLength(packetLength) == packetLength + 2         \* length: packetLength + 2

IsStart(buffer) == ReadUInt16BE(buffer, 0) = 30840    \* 0x7878

ParseGT06Data(buffer) ==
  IF Len(buffer) < 2 THEN Thrown
  ELSE IF ~IsStart(buffer) THEN NoPacket
  ELSE IF Len(buffer) < 4 THEN Thrown
  ELSE
    LET packetLength == ReadUInt8(buffer, 2)
        protocolNumber == ReadUInt8(buffer, 3)
        packet == [NoPacket EXCEPT !.kind = "packet",
                                   !.length = FrameLength(packetLength)]
    IN  CASE protocolNumber = 1 ->
               LET r == DecodeImeiFromBcd(Slice(ToHex(buffer), 9, 25))
               IN  IF r.thrown THEN Thrown
                   ELSE [packet EXCEPT !.type = "login", !.imei = r.imei]
          [] protocolNumber = 18 ->
               IF Len(buffer) < 22 THEN Thrown
               ELSE [packet EXCEPT
                       !.type = "location",
                       !.fix = [lat |-> ReadInt32BE(buffer, 11),
                                lon |-> ReadInt32BE(buffer, 15),
                                speed |-> ReadUInt8(buffer, 19),
                                course |-> ReadUInt16BE(buffer, 20) % 1024,
                                datetime |-> ParseDatetime(Slice(buffer, 4, 10))],
                       !.realtimeGps =            \* (courseStatus & 0x2000) !== 0
                          (ReadUInt16BE(buffer, 20) \div 8192) % 2 # 0]
          [] protocolNumber = 19 -> [packet EXCEPT !.type = "heartbeat"]
          [] OTHER -> [packet EXCEPT !.type = "unknown", !.protocol = protocolNumber]

\* ---------------------------------------------------------------- frames
\* GT06 CRC-ITU (CRC-16/X-25) of a byte sequence, as the devices compute it.
RECURSIVE Xor(_, _)
Xor(a, b) ==
  IF a = 0 THEN b ELSE IF b = 0 THEN a
  ELSE ((a + b) % 2) + 2 * Xor(a \div 2, b \div 2)

RECURSIVE CrcShift(_, _)
CrcShift(crc, n) ==                                   \* n bits, polynomial 0x8408
  IF crc >= 0 /\ n > 0
  THEN CrcShift(IF crc % 2 = 1 THEN Xor(crc \div 2, 33800) ELSE crc \div 2, n - 1)
  ELSE crc

RECURSIVE CrcOver(_, _)
CrcOver(crc, bytes) ==
  IF crc >= 0 /\ bytes # <<>>
  THEN CrcOver(CrcShift(Xor(crc, Head(bytes)), 8), Tail(bytes))
  ELSE crc

CrcItu(bytes) == Xor(CrcOver(65535, bytes), 65535)

\* A frame as a device sends it: 7878, length, protocol, payload, serial,
\* CRC over length..serial, 0d0a; length counts protocol..CRC.
Frame(protocol, payload, serial) ==
  LET body == <<Len(payload) + 5, protocol>> \o payload
                \o <<serial \div 256, serial % 256>>
      crc == CrcItu(body)
  IN  <<120, 120>> \o body \o <<crc \div 256, crc % 256, 13, 10>>

ImeiBytes(k) ==                                       \* the eight BCD bytes of a login
  CASE k = "A"       -> <<8, 104, 2, 32, 56, 83, 23, 37>>     \* 0868022038531725
    [] k = "B"       -> <<8, 104, 2, 32, 56, 83, 23, 38>>     \* 0868022038531726
    [] k = ShortImei -> <<8, 248, 242, 32, 56, 83, 23, 37>>   \* 08f8f22038531725
    [] k = PaddedImei  -> <<134, 128, 34, 3, 133, 49, 114, 95>>   \* 868022038531725f
    [] k = ExampleImei -> <<8, 104, 2, 32, 56, 83, 23, 36>>       \* 0868022038531724

LoginFrame(k, serial) == Frame(1, ImeiBytes(k), serial)

Fix1Bytes ==               \* 2025-06-13 18:30:33, 28.39490 N, 84.12400 E, 40, course 90
  <<25, 6, 13, 18, 30, 33>> \o <<201>> \o <<3, 11, 227, 164>> \o <<9, 6, 136, 224>>
    \o <<40>> \o <<20, 90>> \o <<1, 173, 1, 0, 1, 0, 0, 2>>

LocationFrame(serial) == Frame(18, Fix1Bytes, serial)
HeartbeatFrame(serial) == Frame(19, <<68, 4, 3, 0, 1>>, serial)
UnknownFrame(serial) == Frame(128, <<>>, serial)
Garbage == <<255, 255>>

\* The login bytes 78780d01086802203853172400010d0a: no error check field.
ExampleLogin == <<120, 120, 13, 1>> \o ImeiBytes(ExampleImei) \o <<0, 1, 13, 10>>

\* What the device of the model sends over its connection.
Scripts ==
  { LoginFrame("A", 1) \o HeartbeatFrame(2),
    LoginFrame("A", 1) \o LocationFrame(2) \o LoginFrame("A", 1),
    Garbage \o LoginFrame("B", 2),
    LoginFrame(ShortImei, 1) \o UnknownFrame(2) \o HeartbeatFrame(3),
    LoginFrame(PaddedImei, 1),
    ExampleLogin }

InitWire ==
  /\ Started
  /\ script \in {[s \in Sockets |-> IF s = "s1" THEN w ELSE <<>>] : w \in Scripts}

\* ------------------------------------------------- the 'data' handler
\* What parseGT06Data makes of data.slice(offset).
Packet == ParseGT06Data(Slice(chunk, offset, Len(chunk)))

\* The while loop has a packet to handle.
InLoop(s) ==
  /\ cur = s
  /\ offset < Len(chunk)
  /\ Packet.kind = "packet"

NextOffset ==                                         \* offset += packet.length
  /\ offset' = offset + Packet.length
  /\ UNCHANGED <<script, delivered, chunk>>

OnData(s, n) ==                                       \* a 'data' event: n more bytes
  /\ LoopIdle
  /\ sockState[s] = "open"
  /\ n >= 1
  /\ delivered[s] + n <= Len(script[s])
  /\ chunk' = SubSeq(script[s], delivered[s] + 1, delivered[s] + n)
  /\ delivered' = [delivered EXCEPT ![s] = @ + n]
  /\ offset' = 0
  /\ cur' = s
  /\ written' = <<>>
  /\ UNCHANGED <<trackers, messageQueues, broadcastInProgress, messageCounters,
                 drainers, sockState, sockImei, clients, received, inputs,
                 lastBroadcast, missed, script>>

OnLogin(s) ==
  /\ InLoop(s)
  /\ Packet.type = "login"
  /\ Login(s, ImeiText(Packet.imei))
  /\ NextOffset

OnLocation(s, out, fails) ==
  /\ InLoop(s)
  /\ Packet.type = "location"
  /\ Location(s, FixName(Packet.fix), out, fails)
  /\ NextOffset

OnHeartbeat(s) ==
  /\ InLoop(s)
  /\ Packet.type = "heartbeat"
  /\ Heartbeat(s)
  /\ NextOffset

OnUnknown(s) ==
  /\ InLoop(s)
  /\ Packet.type = "unknown"
  /\ Unknown(s)
  /\ NextOffset

\* The handler returns: the loop is over, parseGT06Data gave null (break) or
\* threw (catch).
Return ==
  /\ cur # NoSock
  /\ ~InLoop(cur)
  /\ DataEnd
  /\ chunk' = <<>>
  /\ offset' = 0
  /\ UNCHANGED <<script, delivered>>

\* One device on socket s1 sending one of Scripts, cut into 'data' events at
\* any byte, and one observer.
NextWire ==
  \/ SocketConnect("s1")
  \/ \E n \in 1..Len(script["s1"]) : OnData("s1", n)
  \/ OnLogin("s1")
  \/ \E out \in {"ok"}, fails \in {{}} : OnLocation("s1", out, fails)
  \/ OnHeartbeat("s1")
  \/ OnUnknown("s1")
  \/ Return
  \/ SocketClose("s1", {})
  \/ \E imei \in KeysU : Resume(imei, 1, "ok", {})
  \/ WsConnect("o1")
  \/ WsClose("o1")

SpecWire == InitWire /\ [][NextWire]_vars

\* ------------------------------------------------- course/status words
\* The location frame of Fix1Bytes with the course/status word w.
LocationFrameOf(w, serial) ==
  Frame(18, SubSeq(Fix1Bytes, 1, 16) \o <<w \div 256, w % 256>>
              \o SubSeq(Fix1Bytes, 19, Len(Fix1Bytes)), serial)

\* Course/status words: ten course bits below, at and above 360, with
\* bit 13 (8192) and other status bits clear and set.
CourseWords ==
  {c + b : c \in {0, 90, 359, 360, 400, 720, 1023}, b \in {0, 8192, 5120, 15360}}

InitParse ==
  /\ Started
  /\ script \in {[s \in Sockets |-> IF s = "s1" THEN LocationFrameOf(w, 1) ELSE <<>>] :
                   w \in CourseWords}

\* A device that sends one location frame without logging in: the frame is
\* parsed and, socket.imei not being set, dropped.
NextParse ==
  \/ SocketConnect("s1")
  \/ \E n \in 1..Len(script["s1"]) : OnData("s1", n)
  \/ OnLocation("s1", "ok", {})
  \/ Return

SpecParse == InitParse /\ [][NextParse]_vars

\* =========================================================== properties
\* The queued `update` messages observer o was sent for IMEI k, in order.
QueuedOf(o, k) ==
  LET Test(m) == m.type = "update" /\ m.via = "queued" /\ m.data.imei = k
  IN  SelectSeq(received[o], Test)

\* Updates of k enqueued and already taken off the queue.
Done(k) == GetOr(messageCounters, k, 0) - Len(GetOr(messageQueues, k, <<>>))

\* C1: for every observer and IMEI, the queued updates of that IMEI reach the
\* observer in the order they were enqueued (their sequence numbers, assigned
\* at enqueue, strictly increase along the observer's stream), whatever
\* enqueues for this or another IMEI fall between two passes of the drainer.
C1_FifoPerImei ==
  \A o \in Observers, k \in KeysU :
    LET q == QueuedOf(o, k)
    IN  \A a, b \in 1..Len(q) : a < b => q[a].data.seq < q[b].data.seq

C1_Witness ==
  \E o \in Observers, k \in Keys, k2 \in Keys :
    /\ k # k2
    /\ Len(QueuedOf(o, k)) >= 2
    /\ Len(QueuedOf(o, k2)) >= 1

\* C3: at most one run of processMessageQueue per IMEI is between setting
\* broadcastInProgress and resetting it; an enqueue that meets a suspended
\* drainer starts no second one.
C3_OneDrainer == \A k \in KeysU : Len(drainers[k]) <= 1

C3_Witness ==
  \E k \in Keys :
    /\ Len(drainers[k]) = 1
    /\ broadcastInProgress[k]
    /\ messageQueues[k] # <<>>

\* C4: every update taken off a queue is handed to exactly one broadcast, and
\* no enqueued update is broadcast twice or skipped: an observer that was
\* connected before the first enqueue and has been sent every broadcast since
\* holds, for each IMEI, exactly the updates 1..n in order, n being the number
\* of enqueues less those still waiting in the queue.
C4_ExactlyOnce ==
  \A o \in Observers, k \in KeysU :
    (clients[o] = "open" /\ ~missed[o]) =>
       LET q == QueuedOf(o, k)
       IN  /\ Len(q) = Done(k)
           /\ \A a \in 1..Len(q) : q[a].data.seq = a

C4_Witness ==
  \E o \in Observers, k \in Keys :
    /\ clients[o] = "open" /\ ~missed[o]
    /\ NoDrainer
    /\ GetOr(messageCounters, k, 0) = 3
    /\ Len(QueuedOf(o, k)) = 3

\* The waiting updates of each IMEI carry the numbers that follow those
\* already taken off its queue.
QueueNumbered ==
  \A k \in DOMAIN messageQueues :
    \A j \in 1..Len(messageQueues[k]) : messageQueues[k][j].seq = Done(k) + j

\* A step raises the counter of at most one IMEI, by one; and when it takes an
\* update off a queue, that update has the next number and is broadcast.
StepNumbered ==
  \A k \in KeysU :
    /\ GetOr(messageCounters', k, 0) \in
         {GetOr(messageCounters, k, 0), GetOr(messageCounters, k, 0) + 1}
    /\ (GetOr(messageCounters', k, 0) # GetOr(messageCounters, k, 0)) =>
          \A k2 \in KeysU \ {k} :
             GetOr(messageCounters', k2, 0) = GetOr(messageCounters, k2, 0)
    /\ (Done(k)' # Done(k)) =>
          /\ Done(k)' = Done(k) + 1
          /\ lastBroadcast'[k].via = "queued"
          /\ lastBroadcast'[k].data.seq = Done(k)'

\* C7: the sequence number of an IMEI starts at 1 and grows by one with each
\* enqueue for that IMEI and with nothing else; it is assigned in the step that
\* appends, so the waiting updates are numbered in queue order and the
\* broadcasts of one IMEI run 1, 2, .., n without a gap.
C7_SeqMonotonic == [](QueueNumbered) /\ [][StepNumbered]_vars

C7_Witness ==
  \E k \in Keys, k2 \in Keys :
    /\ k # k2
    /\ Done(k) = 2
    /\ Done(k2) = 1

\* C8: whenever an observer is sent the queued update of a location frame, the
\* registry entry of that IMEI is the frame's tracker data at that moment.
C8_RegistryBeforeSend ==
  [][\A o \in Observers :
       (/\ received'[o] # received[o]
        /\ received'[o][Len(received'[o])].type = "update"
        /\ received'[o][Len(received'[o])].via = "queued")
       => LET m == received'[o][Len(received'[o])]
          IN  /\ Has(trackers', m.data.imei)
              /\ trackers'[m.data.imei] = m.data]_vars

C8_Witness ==
  \E o \in Observers :
    /\ Len(received[o]) >= 2
    /\ LET m == received[o][Len(received[o])]
       IN  /\ m.type = "update" /\ m.via = "queued"
           /\ m.data.pos \in Payloads
           /\ trackers[m.data.imei] = m.data

\* C10: a packet handled on a session that has no IMEI, and that leaves it
\* without one (a location, a heartbeat), writes nothing to the socket, leaves
\* the registry, every queue, flag and counter and every observer's stream as
\* they were, and leaves the session open.
C10_DroppedBeforeLogin ==
  [][\A s \in Sockets :
       (cur' = s /\ sockImei[s] = NoImei /\ sockImei'[s] = NoImei)
       => /\ written' = <<>>
          /\ sockState'[s] = "open"
          /\ UNCHANGED <<trackers, messageQueues, broadcastInProgress,
                         messageCounters, drainers, received, lastBroadcast>>]_vars

C10_Witness ==
  \E s \in Sockets :
    /\ cur = s
    /\ sockImei[s] = NoImei
    /\ trackers # EmptyMap

\* C2: an `update` or `initial_state` frame from an observer is put on the
\* queue of data.imei like a device location: handling it gives the update the
\* next sequence number of that IMEI.
C2_ObserverUpdateEnqueued ==
  [][\A o \in Observers, kind \in {"update", "initial_state"}, data \in InjectData,
        fails \in FailSets :
       WsMessage(o, kind, data, fails)
       => GetOr(messageCounters', data.imei, 0) = GetOr(messageCounters, data.imei, 0) + 1]_vars

\* C5: a drainer clears the draining flag only once the queue of its IMEI is
\* empty, so no update waits in a queue whose flag is clear.
C5_FlagClearOnlyWhenEmpty ==
  \A k \in DOMAIN messageQueues :
    ~broadcastInProgress[k] => messageQueues[k] = <<>>

\* C6: when the broadcast a drainer awaits has failed and updates are still
\* queued, the drainer goes on in the same run: the flag stays set and the
\* next update is taken off the queue and broadcast.
C6_ContinuesAfterFailure ==
  [][\A k \in KeysU :
       (/\ Len(drainers[k]) = 1
        /\ drainers[k][1] = "rejected"
        /\ messageQueues[k] # <<>>
        /\ drainers'[k] # drainers[k])
       => /\ broadcastInProgress'[k]
          /\ messageQueues'[k] = Tail(messageQueues[k])
          /\ lastBroadcast'[k].data = Head(messageQueues[k])]_vars

\* C9: a location frame accepted on a session with an IMEI (it is enqueued
\* under that IMEI) has a location ACK (protocol 0x12) written to the socket.
C9_LocationAcked ==
  [][\A s \in Sockets :
       (/\ cur' = s
        /\ sockImei[s] # NoImei
        /\ GetOr(messageCounters', sockImei[s], 0) = GetOr(messageCounters, sockImei[s], 0) + 1)
       => /\ Len(written') = 1
          /\ written'[1].protocol = 18]_vars

\* ------------------------------------------------- frames on the wire
\* The handler of socket s takes the packet at its read position in this step.
TakesPacket(s) == InLoop(s) /\ cur' = s

\* The frame at the read position is whole in the chunk: all length + 5 bytes.
WholeFrame ==
  /\ offset + 4 <= Len(chunk)
  /\ offset + ReadUInt8(chunk, offset + 2) + 5 <= Len(chunk)

FrameAtOffset == SubSeq(chunk, offset + 1, offset + ReadUInt8(chunk, offset + 2) + 5)

\* The ACK of a frame: its protocol byte, its serial, and the CRC-ITU over
\* 05, protocol, serial.
CanonicalAck(frame) ==
  LET hi == frame[Len(frame) - 5]
      lo == frame[Len(frame) - 4]
  IN  [protocol |-> frame[4], serial |-> hi * 256 + lo,
       crc |-> CrcItu(<<5, frame[4], hi, lo>>)]

IsImei(digits) == Len(digits) = 15 /\ \A i \in 1..Len(digits) : digits[i] <= 9

\* C11: once a login frame has been processed (its ACK is written), the
\* registry entry of the IMEI the session is now bound to has status active.
C11_LoginSetsActive ==
  [][\A s \in Sockets :
       (cur' = s /\ written' = <<LoginAck>>)
       => trackers'[sockImei'[s]].status = "active"]_vars

\* C12: a login frame leaves exactly one registry entry for its IMEI; when the
\* IMEI was in the registry already, its entry (lat/lon included) is what it
\* was, and no other entry changes.
C12_LoginIdempotent ==
  [][\A s \in Sockets :
       (TakesPacket(s) /\ Packet.type = "login")
       => LET k == ImeiText(Packet.imei)
          IN  /\ Cardinality({x \in DOMAIN trackers' : trackers'[x].imei = k}) = 1
              /\ Has(trackers, k) => trackers' = trackers
              /\ \A x \in DOMAIN trackers : trackers'[x] = trackers[x]]_vars

C12_Witness ==
  \E s \in Sockets :
    /\ cur = s
    /\ written = <<LoginAck>>
    /\ sockImei[s] \in Keys
    /\ trackers[sockImei[s]].pos \in Payloads
    /\ delivered[s] = Len(script[s])

\* C13: a heartbeat frame on a session bound to an IMEI has exactly one ACK
\* written, of the heartbeat protocol 0x13, and leaves the registry, every
\* queue, flag and counter, every observer's stream and the session as they
\* were.
C13_HeartbeatAckOnly ==
  [][\A s \in Sockets :
       (TakesPacket(s) /\ Packet.type = "heartbeat" /\ sockImei[s] \in Keys \cup {ShortImei})
       => /\ Len(written') = 1
          /\ written'[1].protocol = 19
          /\ UNCHANGED <<trackers, messageQueues, broadcastInProgress, messageCounters,
                         drainers, received, lastBroadcast, sockImei, sockState>>]_vars

C13_Witness ==
  \E s \in Sockets :
    /\ cur = s
    /\ sockImei[s] \in Keys
    /\ written = <<HeartbeatAck>>
    /\ clients["o1"] = "open"

\* C14: when a session bound to an IMEI closes, the registry entry of the IMEI
\* gets status offline and one update is enqueued on the queue of that IMEI
\* (it takes the next sequence number of the IMEI).
C14_CloseEnqueuesOffline ==
  [][\A s \in Sockets :
       (sockState[s] = "open" /\ sockState'[s] = "closed" /\ sockImei[s] \in Keys)
       => /\ trackers'[sockImei[s]].status = "offline"
          /\ GetOr(messageCounters', sockImei[s], 0)
               = GetOr(messageCounters, sockImei[s], 0) + 1]_vars

\* C15: once the bytes of a login frame for A have all been handed over,
\* in one read or split over several at any position, and the handler has
\* returned, the session is bound to A as after a single read of the frame.
C15_SplitFrameParsed ==
  \A s \in Sockets :
    (/\ Len(script[s]) >= 18
     /\ SubSeq(script[s], 1, 18) = LoginFrame("A", 1)
     /\ delivered[s] = 18
     /\ cur = NoSock)
    => sockImei[s] = "A"

\* C16: when the handler returns from a read that holds garbage bytes and
\* then a whole login frame, the session is bound to the IMEI of that frame.
C16_ResyncToNextStart ==
  [][\A s \in Sockets :
       (cur = s /\ cur' = NoSock /\ chunk = Garbage \o LoginFrame("B", 2))
       => sockImei'[s] = "B"]_vars

\* C17: after a frame that is whole in the read, the read position is
\* length + 5 bytes further on, at the start of the next frame.
C17_AdvanceWholeFrame ==
  [][\A s \in Sockets :
       (TakesPacket(s) /\ WholeFrame)
       => offset' = offset + ReadUInt8(chunk, offset + 2) + 5]_vars

\* C18: a whole frame of a protocol other than 0x01, 0x12, 0x13 has no ACK
\* written, leaves the session's IMEI, the registry and the queues as they
\* were and the session open, and moves the read position past the frame.
C18_UnknownSkipped ==
  [][\A s \in Sockets :
       (TakesPacket(s) /\ WholeFrame /\ Packet.type = "unknown")
       => /\ written' = <<>>
          /\ sockState'[s] = "open"
          /\ UNCHANGED <<sockImei, trackers, messageQueues, broadcastInProgress,
                         messageCounters, drainers, received>>
          /\ offset' = offset + Len(FrameAtOffset)]_vars

\* C19: every ACK written for a whole frame is the canonical ACK of that
\* frame: its protocol byte, its serial echoed, the CRC-ITU of these.
C19_AckCanonical ==
  [][\A s \in Sockets :
       (TakesPacket(s) /\ WholeFrame /\ written' # <<>>)
       => written' = <<CanonicalAck(FrameAtOffset)>>]_vars

\* C20: a whole login frame whose decoded IMEI is not 15 decimal digits is
\* rejected: the session's IMEI and the registry stay as they were and no ACK
\* is written.
C20_BadImeiRejected ==
  [][\A s \in Sockets :
       (TakesPacket(s) /\ WholeFrame /\ Packet.type = "login" /\ ~IsImei(Packet.imei))
       => /\ sockImei'[s] = sockImei[s]
          /\ trackers' = trackers
          /\ written' = <<>>]_vars

\* The sixteen nibbles of the IMEI field, bytes 4..11 of the frame at the read
\* position.
ImeiField == ToHex(Slice(chunk, offset + 4, offset + 12))

\* C21: the IMEI bound by a login is the BCD decode of the IMEI bytes at
\* frame offsets 4..11 with the F padding skipped: a field of fifteen decimal
\* digits and one trailing F nibble binds fifteen decimal digits, and the
\* login bytes 78780d01086802203853172400010d0a bind "868022038531725" ("A").
C21_ImeiFromBcd ==
  [][\A s \in Sockets :
       (TakesPacket(s) /\ Packet.type = "login" /\ offset + 12 <= Len(chunk))
       => /\ (ImeiField[16] = 15 /\ \A i \in 1..15 : ImeiField[i] <= 9)
               => /\ IsImei(DigitsOf(sockImei'[s]))
                  /\ DigitsOf(sockImei'[s]) = SubSeq(ImeiField, 1, 15)
          /\ Slice(chunk, offset, offset + 16) = ExampleLogin
               => sockImei'[s] = "A"]_vars

\* A step that runs one broadcast in which the sends to the observers of
\* fails throw.
BroadcastFailing(fails) ==
  /\ fails # {}
  /\ \/ \E s \in Sockets, p \in Payloads : Location(s, p, "ok", fails)
     \/ \E imei \in Keys, n \in 1..2 : Resume(imei, n, "ok", fails)
     \/ \E s \in Sockets : SocketClose(s, fails)
     \/ \E o \in Observers, data \in HubData : WsMessage(o, "update", data, fails)

\* C22: within one broadcast a send that fails for one observer does not
\* stop the iteration: every other open observer receives that update exactly
\* once, wherever the failing observer stands in the set.
C22_FailureIsolated ==
  [][\A fails \in FailSets :
       BroadcastFailing(fails)
       => \E k \in DOMAIN lastBroadcast' :
            /\ \A o \in OpenClients \ fails :
                  received'[o] = Append(received[o], lastBroadcast'[k])
            /\ \A o \in Observers \ (OpenClients \ fails) :
                  received'[o] = received[o]]_vars

\* Both observers were connected before the device logged in; the send of
\* the one location update failed for one of them and the other has it.
C22_Witness ==
  \E o \in Observers, f \in Observers, k \in Keys :
    /\ o # f
    /\ clients[o] = "open" /\ clients[f] = "open"
    /\ received[f] = <<[type |-> "initial_state", data |-> EmptyMap]>>
    /\ received[o][1] = [type |-> "initial_state", data |-> EmptyMap]
    /\ Len(received[o]) = 2
    /\ received[o][2].via = "queued"
    /\ received[o][2].data.imei = k
    /\ missed[f] /\ ~missed[o]

\* C23: an observer for which a send fails during a broadcast is unregistered
\* by that broadcast: it is not among the clients that later broadcasts send to.
C23_FailedObserverUnregistered ==
  [][\A fails \in FailSets :
       BroadcastFailing(fails) => \A o \in fails : clients'[o] # "open"]_vars

IsImeiText(k) == k # NoImei /\ IsImei(DigitsOf(k))

\* C25: in every reachable state every key of the registry is a string of
\* fifteen decimal digits and equals the imei field of the entry under it.
C25_KeysAreImeis ==
  \A k \in DOMAIN trackers : IsImeiText(k) /\ trackers[k].imei = k

\* C26: once the registry entry of an IMEI has lat and lon, every later write
\* for that IMEI leaves them set.
C26_PositionKept ==
  [][\A k \in DOMAIN trackers :
       trackers[k].pos # NoPos => (Has(trackers', k) /\ trackers'[k].pos # NoPos)]_vars

\* C27: the status of an IMEI becomes offline only through the close of a
\* device session bound to that IMEI.
C27_OfflineOnlyByClose ==
  [][\A k \in DOMAIN trackers' :
       (/\ trackers'[k].status = "offline"
        /\ ~(Has(trackers, k) /\ trackers[k].status = "offline"))
       => \E s \in Sockets : /\ sockImei[s] = k
                              /\ sockState[s] = "open"
                              /\ sockState'[s] = "closed"]_vars

\* Observer o registers in this step.
Registers(o) == clients[o] = "none" /\ clients'[o] = "open"

\* What an observer that ever registered has received starts with one
\* initial_state and goes on with updates only.
InitialStateFirst ==
  \A o \in Observers :
    IF clients[o] = "none" THEN received[o] = <<>>
    ELSE /\ received[o] # <<>>
         /\ received[o][1].type = "initial_state"
         /\ \A i \in 2..Len(received[o]) : received[o][i].type = "update"

InitialStateIsRegistry ==
  \A o \in Observers :
    Registers(o) => received'[o] = <<[type |-> "initial_state", data |-> trackers]>>

\* C28: the first message every observer receives is a single initial_state
\* whose data is the registry at the moment of its connection; it is sent
\* once per observer and no update reaches the observer before it.
C28_InitialStateFirst == [](InitialStateFirst) /\ [][InitialStateIsRegistry]_vars

\* An observer that registered when the registry held a located IMEI, and
\* that has received an update since.
C28_Witness ==
  \E o \in Observers, k \in Keys :
    /\ clients[o] = "open"
    /\ Has(received[o][1].data, k)
    /\ received[o][1].data[k].pos # NoPos
    /\ Len(received[o]) >= 2

\* The number of messages of IMEI k taken off its queue, for given maps.
DoneIn(counters, queues, k) == GetOr(counters, k, 0) - Len(GetOr(queues, k, <<>>))

\* On registering, an observer is sent no update, and the initial_state it is
\* sent has every IMEI whose latest broadcast was a location update, with the
\* coordinates of that update.
LateJoinerGetsState ==
  \A o \in Observers :
    Registers(o)
    => /\ \A i \in 1..Len(received'[o]) : received'[o][i].type # "update"
       /\ \A k \in DOMAIN lastBroadcast :
             lastBroadcast[k].via = "queued"
             => /\ Has(received'[o][1].data, k)
                /\ received'[o][1].data[k].pos = lastBroadcast[k].data.pos

\* A location update that an observer receives in a step is the one taken
\* off the queue in that step.
UpdateIsCurrent ==
  \A o \in Observers :
    (clients[o] = "open" /\ received'[o] # received[o])
    => LET new == received'[o][Len(received'[o])]
       IN  /\ received'[o] = Append(received[o], new)
           /\ new.via = "queued"
                => LET k == new.data.imei
                   IN  /\ DoneIn(messageCounters', messageQueues', k) = Done(k) + 1
                       /\ new.data.seq = Done(k) + 1

\* C29: an observer registered after the update for some location has been
\* broadcast never receives that update; it learns that state through its
\* initial_state, which has the IMEI with its current coordinates.
C29_LateJoinerNoReplay == [][LateJoinerGetsState /\ UpdateIsCurrent]_vars

\* An observer that registered after the first location update of an IMEI
\* was broadcast, and whose only update since is the second one.
C29_Witness ==
  \E o \in Observers, k \in Keys :
    /\ clients[o] = "open"
    /\ Has(received[o][1].data, k)
    /\ received[o][1].data[k].pos # NoPos
    /\ received[o][1].data[k].seq = 1
    /\ Len(QueuedOf(o, k)) = 1
    /\ QueuedOf(o, k)[1].data.seq = 2

\* C30: after an observer has disconnected, no broadcast on any path (queue
\* drain, observer update, offline notification) sends a message to it.
C30_ClosedGetsNothing ==
  [][\A o \in Observers :
       clients[o] = "closed" => (received'[o] = received[o] /\ clients'[o] = "closed")]_vars

\* An observer that registered before anything was enqueued, for which no
\* send failed, has closed, and lacks an update that was broadcast since.
C30_Witness ==
  \E o \in Observers, k \in Keys :
    /\ clients[o] = "closed"
    /\ received[o][1].data = EmptyMap
    /\ ~missed[o]
    /\ Has(lastBroadcast, k)
    /\ Done(k) > Len(QueuedOf(o, k))

\* A message is put on the queue of IMEI k in this step.
Enqueues(k) == GetOr(messageCounters', k, 0) = GetOr(messageCounters, k, 0) + 1

\* C31: drainer exclusivity is per IMEI: while a drainer of IMEI a is suspended
\* in a broadcast, an enqueue for another IMEI k whose flag is clear starts a
\* drainer of k and the head of k's queue is broadcast in that same step,
\* a's queue not being waited for; both flags are then set.
C31_DrainPerImei ==
  [][\A k \in KeysU, a \in KeysU :
       (/\ Enqueues(k)
        /\ a # k
        /\ GetOr(broadcastInProgress, a, FALSE) /\ drainers[a] # <<>>
        /\ ~GetOr(broadcastInProgress, k, FALSE))
       => /\ broadcastInProgress'[k] /\ broadcastInProgress'[a]
          /\ Len(drainers'[k]) = Len(drainers[k]) + 1
          /\ messageQueues'[a] = messageQueues[a]
          /\ Has(lastBroadcast', k)
          /\ lastBroadcast'[k].via = "queued"
          /\ trackers'[k] = lastBroadcast'[k].data
          /\ lastBroadcast'[k].data.seq = Done(k) + 1]_vars

\* The flags of two IMEIs are set at once, each with its drainer suspended.
C31_Witness ==
  \E k \in Keys, a \in Keys :
    /\ a # k
    /\ GetOr(broadcastInProgress, a, FALSE) /\ drainers[a] # <<>>
    /\ GetOr(broadcastInProgress, k, FALSE) /\ drainers[k] # <<>>
    /\ Has(lastBroadcast, a) /\ Has(lastBroadcast, k)

\* C32: for every 16-bit course/status word w of a location frame the parsed
\* course is (w & 0x03FF) mod 360, so within 0..359, and realtimeGps is true
\* exactly when bit 13 of w is set.
C32_CourseMod360 ==
  [][\A s \in Sockets :
       (TakesPacket(s) /\ Packet.type = "location")
       => LET w == ReadUInt16BE(chunk, offset + 20)
          IN  /\ Packet.fix.course = (w % 1024) % 360
              /\ Packet.fix.course \in 0..359
              /\ Packet.realtimeGps <=> ((w \div 8192) % 2 = 1)]_vars

\* C33: whenever an update for an IMEI has been broadcast, the registry entry
\* of that IMEI is the payload of the update broadcast last for it, on each
\* of the three broadcast paths: the registry write and the broadcast are one
\* step.
C33_RegistryIsLastBroadcast ==
  \A k \in DOMAIN lastBroadcast :
    Has(trackers, k) /\ trackers[k] = lastBroadcast[k].data

\* An IMEI whose location update was drained and whose session then closed:
\* the update broadcast last is the offline notification.
C33_Witness ==
  \E k \in Keys :
    /\ Has(lastBroadcast, k)
    /\ lastBroadcast[k].via = "direct"
    /\ lastBroadcast[k].data.status = "offline"
    /\ lastBroadcast[k].data.seq >= 1
    /\ \E s \in Sockets : sockState[s] = "closed" /\ sockImei[s] = k

\* A step that takes an update off a queue and broadcasts it, with no send
\* and no broadcast throwing.
DrainsCleanly ==
  \/ \E s \in Sockets, p \in Payloads : Location(s, p, "ok", {})
  \/ \E imei \in KeysU, n \in 1..2 : Resume(imei, n, "ok", {})

\* The initial_state of a registering observer shows, for every IMEI whose
\* latest broadcast was a location update, the update taken off the queue
\* last: every update drained so far is that one or an older one.
DrainedIsInInitialState ==
  \A o \in Observers :
    Registers(o)
    => \A k \in DOMAIN lastBroadcast :
         LET snapshot == received'[o][1].data
         IN  /\ Has(snapshot, k)
             /\ lastBroadcast[k].via = "queued" => snapshot[k].seq = Done(k)

\* Every update taken off a queue while the observer is open is sent to it.
DrainedLaterIsSent ==
  \A o \in Observers, k \in KeysU :
    (/\ clients[o] = "open"
     /\ DoneIn(messageCounters', messageQueues', k) > Done(k)
     /\ DrainsCleanly)
    => /\ DoneIn(messageCounters', messageQueues', k) = Done(k) + 1
       /\ Len(received'[o]) = Len(received[o]) + 1
       /\ LET new == received'[o][Len(received'[o])]
          IN  /\ new.type = "update"
              /\ new.data.imei = k
              /\ new.data.seq = Done(k) + 1

\* C34: a newly connected observer misses no update: every update enqueued
\* for an IMEI was drained before the connection, and then the initial_state
\* shows it or a later one, or is sent to the observer as an update when it
\* is drained.
C34_NoUpdateMissed == [][DrainedIsInInitialState /\ DrainedLaterIsSent]_vars

\* An observer that connected after the first update of an IMEI was drained
\* and has been sent the second and the third.
C34_Witness ==
  \E o \in Observers, k \in Keys :
    /\ clients[o] = "open"
    /\ Has(received[o][1].data, k)
    /\ received[o][1].data[k].seq = 1
    /\ Done(k) = 3
    /\ Len(QueuedOf(o, k)) = 2
    /\ QueuedOf(o, k)[1].data.seq = 2
    /\ QueuedOf(o, k)[2].data.seq = 3

\* An observer update for IMEI k is handled in this step.
Injects(k) ==
  /\ inputs' > inputs
  /\ Has(lastBroadcast', k)
  /\ lastBroadcast'[k].via = "direct"
  /\ sockState' = sockState

\* C35: after a session bound to an IMEI has closed, the registry entry of
\* the IMEI stays offline as long as there is no further input for that IMEI:
\* at the close no run of that IMEI is suspended with updates to drain, and
\* later the offline status goes only in a step that handles a new location
\* or a new observer update for that IMEI.
C35_OfflineStays ==
  [][/\ \A s \in Sockets :
          (sockState[s] = "open" /\ sockState'[s] = "closed" /\ Has(trackers, sockImei[s]))
          => /\ drainers[sockImei[s]] = <<>>
             /\ ~GetOr(broadcastInProgress, sockImei[s], FALSE)
             /\ IsBound(s) => trackers'[sockImei[s]].status = "offline"
     /\ \A k \in DOMAIN trackers :
          (trackers[k].status = "offline" /\ trackers'[k].status # "offline")
          => (Enqueues(k) \/ Injects(k))]_vars

\* The session of an IMEI has closed after two of its updates were drained;
\* the queue is empty, nothing is running and the entry is offline.
C35_Witness ==
  \E k \in Keys, s \in Sockets :
    /\ sockState[s] = "closed" /\ sockImei[s] = k
    /\ LoopIdle
    /\ GetOr(messageCounters, k, 0) = 2
    /\ GetOr(messageQueues, k, <<>>) = <<>>
    /\ Has(trackers, k)
    /\ trackers[k].status = "offline"
    /\ trackers[k].seq = 2

\* Session s closes in this step.
Closes(s) == sockState[s] = "open" /\ sockState'[s] = "closed"

\* C36: the registry shows status offline for an IMEI only when no open
\* device session is bound to it: with two sessions logged in with the same
\* IMEI, closing one of them does not mark the device offline while the other
\* is still open.
C36_OfflineOnlyWhenNoSession ==
  [][\A s \in Sockets, s2 \in Sockets :
       (/\ s # s2
        /\ Closes(s) /\ IsBound(s)
        /\ sockState[s2] = "open" /\ sockImei[s2] = sockImei[s]
        /\ Has(trackers, sockImei[s]) /\ trackers[sockImei[s]].status # "offline")
       => trackers'[sockImei[s]].status # "offline"]_vars

\* C37: the IMEI binding of a session is set at most once: a login frame on a
\* session that is bound already does not change the IMEI its later location
\* updates and its disconnect are attributed to.
C37_BoundOnce ==
  [][\A s \in Sockets : IsBound(s) => sockImei'[s] = sockImei[s]]_vars

\* The draining flag of an IMEI is true exactly while a run for it is in
\* progress.
FlagIffRunning ==
  \A k \in KeysU : GetOr(broadcastInProgress, k, FALSE) <=> drainers[k] # <<>>

\* An enqueue for an IMEI that has no run in progress starts one.
EnqueueStartsRun ==
  \A k \in KeysU :
    (Enqueues(k) /\ drainers[k] = <<>>)
    => (drainers'[k] # <<>> /\ broadcastInProgress'[k])

\* C38: the draining flag of an IMEI is true exactly while a drainer run for
\* that IMEI is in progress; it is not left true when the run ends, normally
\* or by an error, so with no run in progress every flag is false and a later
\* enqueue starts a drainer.
C38_FlagIffRunning == [](FlagIffRunning) /\ [][EnqueueStartsRun]_vars

\* A run has ended by an error: an update is left in the queue, nothing is
\* running and the flag is false.
C38_Witness ==
  \E k \in Keys :
    /\ Has(broadcastInProgress, k) /\ ~broadcastInProgress[k]
    /\ drainers[k] = <<>>
    /\ messageQueues[k] # <<>>

\* Queue, flag, counter and registry entry of IMEI b are the same after the
\* step.
SameFor(b) ==
  /\ GetOr(messageQueues', b, <<>>) = GetOr(messageQueues, b, <<>>)
  /\ GetOr(broadcastInProgress', b, FALSE) = GetOr(broadcastInProgress, b, FALSE)
  /\ GetOr(messageCounters', b, 0) = GetOr(messageCounters, b, 0)
  /\ Has(trackers', b) = Has(trackers, b)
  /\ Has(trackers, b) => trackers'[b] = trackers[b]

\* The step enqueues for IMEI k, or starts, continues or ends a run of k.
WorksFor(k) ==
  \/ Enqueues(k)
  \/ drainers'[k] # drainers[k]
  \/ GetOr(messageQueues', k, <<>>) # GetOr(messageQueues, k, <<>>)
  \/ GetOr(broadcastInProgress', k, FALSE) # GetOr(broadcastInProgress, k, FALSE)

\* C39: enqueueing, draining and broadcasting for IMEI k leave the queue, the
\* draining flag, the sequence counter and the registry entry of every other
\* IMEI b unchanged.
C39_OtherImeiUntouched ==
  [][\A k \in KeysU : WorksFor(k) => \A b \in KeysU \ {k} : SameFor(b)]_vars

\* The run of one IMEI has ended while the run of another is still
\* suspended, its update written to the registry.
C39_Witness ==
  \E k \in Keys, b \in Keys :
    /\ k # b
    /\ Done(k) >= 1 /\ drainers[k] = <<>> /\ ~GetOr(broadcastInProgress, k, FALSE)
    /\ GetOr(broadcastInProgress, b, FALSE) /\ drainers[b] # <<>>
    /\ Has(trackers, b) /\ trackers[b].seq >= 1

\* C40: closing a session that never bound an IMEI changes no registry entry,
\* enqueues nothing and broadcasts nothing; closing a bound session changes
\* only the registry entry of its own IMEI.
C40_CloseFrame ==
  [][\A s \in Sockets :
       Closes(s)
       => /\ UNCHANGED <<messageQueues, broadcastInProgress, messageCounters, drainers>>
          /\ ~IsBound(s) => UNCHANGED <<trackers, received, lastBroadcast>>
          /\ IsBound(s)
               => /\ DOMAIN trackers' = DOMAIN trackers
                  /\ \A b \in DOMAIN trackers \ {sockImei[s]} : trackers'[b] = trackers[b]]_vars

\* A session bound to one IMEI has closed and the entry of that IMEI is
\* offline, while the entry of another IMEI is not.
C40_Witness ==
  \E s \in Sockets, b \in Keys :
    /\ sockState[s] = "closed"
    /\ IsBound(s)
    /\ sockImei[s] # b
    /\ Has(trackers, sockImei[s]) /\ trackers[sockImei[s]].status = "offline"
    /\ Has(trackers, b) /\ trackers[b].status # "offline"

====
